---- MODULE Spec2Model ----
(***************************************************************************)
(* A model of the pci_types crate root (src/lib.rs): the packed PCI       *)
(* address, the predefined header decoder, and the endpoint header        *)
(* decoder with its BAR size probe and capability pointer.                 *)
(*                                                                         *)
(* Machine words.  A u32 (or u64) is modelled as the set of positions of  *)
(* its 1-bits: 0 is {}, 0xFFFFFFFF is 0..31, 0x10 is {4}.  Every bit       *)
(* operation of the source is then a set operation, and no value leaves   *)
(* the range of the model checker's integers.  Small fields (a bus        *)
(* number, a header type) are converted to and from naturals with Bits    *)
(* and Value.                                                              *)
(***************************************************************************)
EXTENDS Integers, FiniteSets, Sequences, TLC

VARIABLES
    addr,             \* the PciAddress object the caller holds (its u32)
    other,            \* a second PciAddress, the one addr is compared with
    cfg,              \* the function's configuration space: offset -> u32
    log,              \* the accesses the last call made through ConfigRegionAccess
    ret,              \* what the last call returned (or that it panicked)
    overflow_checks   \* whether the build checks arithmetic overflow (debug) or wraps (release)

vars == <<addr, other, cfg, log, ret, overflow_checks>>

----------------------------------------------------------------------------
(* Bounds of the model *)

\* Each address field is sampled at 0..Spread and at its largest value.
Spread == 1

----------------------------------------------------------------------------
(* Words as sets of bit positions *)

Pow2(n) == 2 ^ n

\* The w low bits of the natural n, as a set of positions.
Bits(n, w) == {i \in 0..(w - 1) : (n \div Pow2(i)) % 2 = 1}

\* The natural a set of positions below 31 stands for.
RECURSIVE Value(_)
Value(s) ==
    IF s = {} THEN 0
    ELSE LET i == CHOOSE x \in s : TRUE
         IN  Pow2(i) + Value(s \ {i})

AllOnes == 0..31

\* BitField::get_bit
get_bit(v, i) == i \in v

\* BitField::get_bits(lo..hi): the field, moved down to position 0.
get_bits(v, lo, hi) == {i - lo : i \in v \cap (lo..(hi - 1))}

\* BitField::set_bits(lo..hi, x): the field replaced by the word x, which fits it.
set_bits(v, lo, hi, x) == (v \ (lo..(hi - 1))) \cup {i + lo : i \in x \cap (0..(hi - lo - 1))}

\* u32::trailing_zeros: 32 for the zero word.
trailing_zeros(v) ==
    IF v = {} THEN 32
    ELSE CHOOSE i \in v : \A j \in v : i <= j

\* u32::checked_add(1 << k): the sum, or None when it does not fit 32 bits.
None == [none |-> TRUE, sum |-> {}]
checked_add(v, k) ==
    IF (k..31) \subseteq v THEN None
    ELSE LET j == CHOOSE x \in (k..31) \ v : \A y \in (k..31) \ v : x <= y
         IN  [none |-> FALSE, sum |-> (v \ (k..(j - 1))) \cup {j}]

\* The derived Ord of a u32 newtype: unsigned comparison.
cmp(a, b) ==
    IF a = b THEN "Equal"
    ELSE LET d == (a \ b) \cup (b \ a)
             top == CHOOSE x \in d : \A y \in d : y <= x
         IN  IF top \in b THEN "Less" ELSE "Greater"

----------------------------------------------------------------------------
(* PciAddress *)

DEV_SHIFT == 3
BUS_SHIFT == 8
SEG_SHIFT == 16

\* PciAddress::new with the device range written as 4..8 instead of 3..8
\* (a faulty variant C10 must reject).
PciAddress_new_short(seg, b, d, f) ==
    LET r1 == set_bits({}, 0, 3, Bits(f, 8))
        r2 == set_bits(r1, 4, 8, Bits(d, 8))
        r3 == set_bits(r2, 8, 16, Bits(b, 8))
    IN  set_bits(r3, 16, 32, Bits(seg, 16))

\* PciAddress::new(segment: u16, bus: u8, device: u8, function: u8), for
\* arguments that fit their fields.
PciAddress_new(seg, b, d, f) ==
    LET r0 == {}
        r1 == set_bits(r0, 0, 3, Bits(f, 8))
        r2 == set_bits(r1, 3, 8, Bits(d, 8))
        r3 == set_bits(r2, 8, 16, Bits(b, 8))
        r4 == set_bits(r3, 16, 32, Bits(seg, 16))
    IN  r4

segment(a) == Value(get_bits(a, 16, 32))
bus(a) == Value(get_bits(a, 8, 16))
device(a) == Value(get_bits(a, 3, 8))
function(a) == Value(get_bits(a, 0, 3))

\* The increments: [panicked, value].  checked_add's sum is dropped by the
\* source (it is not assigned to self.0); only its unwrap can panic.
increment_function(a) ==
    IF checked_add(a, 0).none
    THEN [panicked |-> TRUE, value |-> a]
    ELSE [panicked |-> FALSE, value |-> a]

increment_device(a) ==
    IF checked_add(a, DEV_SHIFT).none
    THEN [panicked |-> TRUE, value |-> a]
    ELSE [panicked |-> FALSE, value |-> a \cap (0..(DEV_SHIFT - 1))]

increment_bus(a) ==
    IF checked_add(a, BUS_SHIFT).none
    THEN [panicked |-> TRUE, value |-> a]
    ELSE [panicked |-> FALSE, value |-> a \cap (0..(BUS_SHIFT - 1))]

increment_segment(a) ==
    IF checked_add(a, SEG_SHIFT).none
    THEN [panicked |-> TRUE, value |-> a]
    ELSE [panicked |-> FALSE, value |-> a \cap (0..(SEG_SHIFT - 1))]

----------------------------------------------------------------------------
(* The caller's inputs *)

FunctionVals == (0..Spread) \cup {7}
DeviceVals == (0..Spread) \cup {31}
BusVals == (0..Spread) \cup {255}
SegmentVals == (0..Spread) \cup {65535}
AddressArgs == SegmentVals \X BusVals \X DeviceVals \X FunctionVals

\* A panic aborts the process: nothing runs after it.
Running == ~ret.panicked

AddrRet(op, args, before, panicked, out) ==
    [op |-> op, args |-> args, before |-> before, panicked |-> panicked, out |-> out]

----------------------------------------------------------------------------
(* Address operations *)

\* addr.cmp(&other)
Compare ==
    /\ Running
    /\ ret' = AddrRet("cmp", <<>>, addr, FALSE, cmp(addr, other))
    /\ UNCHANGED <<addr, other, cfg, log, overflow_checks>>

Increment(op, r) ==
    /\ Running
    /\ addr' = r.value
    /\ ret' = AddrRet(op, <<>>, addr, r.panicked, "")
    /\ UNCHANGED <<other, cfg, log, overflow_checks>>

IncrementFunction == Increment("increment_function", increment_function(addr))
IncrementDevice == Increment("increment_device", increment_device(addr))
IncrementBus == Increment("increment_bus", increment_bus(addr))
IncrementSegment == Increment("increment_segment", increment_segment(addr))

----------------------------------------------------------------------------
(* Configuration space and the access trait *)

MAX_BARS == 6

\* The registers the decoders touch: status/command, header type, BAR0..BAR5,
\* the register after BAR5 (bar reads offset + 4), the capabilities pointer.
CfgOffsets == {4, 12, 52} \cup {16 + 4 * i : i \in 0..MAX_BARS}

ZeroCfg == [o \in CfgOffsets |-> {}]

\* One call of ConfigRegionAccess::read / ::write, as the log keeps it.
Rd(off, val) == [op |-> "read", off |-> off, val |-> val]
Wr(off, val) == [op |-> "write", off |-> off, val |-> val]

----------------------------------------------------------------------------
(* PciHeader and EndpointHeader *)

\* header_type taken as the whole byte, multi-function flag included
\* (a faulty variant C9 must reject).
header_type_byte(c) == Value(get_bits(c[12], 16, 24))

\* PciHeader::header_type: bits 0..=6 of the header type byte.
header_type(c) == Value(get_bits(c[12], 16, 23))

\* PciHeader::has_multiple_functions
has_multiple_functions(c) == get_bit(c[12], 23)

\* EndpointHeader::status: the upper half of the register at 0x04.
status(c) == get_bits(c[4], 16, 32)

\* StatusRegister::has_capability_list (register.rs): bit 4 of the status word.
has_capability_list(st) == get_bit(st, 4)

\* CapabilityIterator::new (capability.rs): the cursor starts at the pointer.
CapabilityIterator_new(a, pointer) == [address |-> a, offset |-> pointer]

\* EndpointHeader::from_header: [some, address, log].
from_header(c, a) ==
    [some |-> header_type(c) = 0,
     address |-> IF header_type(c) = 0 THEN a ELSE {},
     log |-> <<Rd(12, c[12])>>]

\* capability_pointer without the status test (a faulty variant C8 must
\* reject).
capability_pointer_unguarded(c) ==
    [value |-> Value(get_bits(c[52], 0, 8)), log |-> <<Rd(4, c[4]), Rd(52, c[52])>>]

\* EndpointHeader::capability_pointer: [value, log].
capability_pointer(c) ==
    IF has_capability_list(status(c))
    THEN [value |-> Value(get_bits(c[52], 0, 8)), log |-> <<Rd(4, c[4]), Rd(52, c[52])>>]
    ELSE [value |-> 0, log |-> <<Rd(4, c[4])>>]

\* EndpointHeader::capabilities: [iter, log].
capabilities(c, a) ==
    LET p == capability_pointer(c)
    IN  [iter |-> CapabilityIterator_new(a, p.value), log |-> p.log]

HdrRet(op, some, address, value) ==
    [op |-> op, some |-> some, address |-> address, value |-> value, panicked |-> FALSE]

FromHeader ==
    /\ Running
    /\ LET r == from_header(cfg, addr)
       IN  /\ ret' = HdrRet("from_header", r.some, r.address, 0)
           /\ log' = r.log
    /\ UNCHANGED <<addr, other, cfg, overflow_checks>>

CapabilityPointer ==
    /\ Running
    /\ LET r == capability_pointer(cfg)
       IN  /\ ret' = HdrRet("capability_pointer", TRUE, addr, r.value)
           /\ log' = r.log
    /\ UNCHANGED <<addr, other, cfg, overflow_checks>>

Capabilities ==
    /\ Running
    /\ LET r == capabilities(cfg, addr)
       IN  /\ ret' = HdrRet("capabilities", TRUE, r.iter.address, r.iter.offset)
           /\ log' = r.log
    /\ UNCHANGED <<addr, other, cfg, overflow_checks>>

----------------------------------------------------------------------------
(* EndpointHeader::bar *)

BarRet(slot, raw, rb, kind, address, size, prefetchable, port) ==
    [op |-> "bar", slot |-> slot, raw |-> raw, rb |-> rb, kind |-> kind,
     address |-> address, size |-> size, prefetchable |-> prefetchable,
     port |-> port, panicked |-> (kind = "Panic")]

\* bar(slot, access) on configuration space c, where the device answers the
\* read that follows the all-ones write with rb, in a build with overflow
\* checks oc: [ret, log, cfg].  A u64 is a set of positions in 0..63.
bar(c, slot, rb, oc) ==
    LET offset == 16 + slot * 4
        raw == c[offset]
        prefetchable == get_bit(raw, 3)
        address == {i + 4 : i \in get_bits(raw, 4, 32)}
        probe == <<Rd(offset, raw), Wr(offset, AllOnes), Rd(offset, rb), Wr(offset, address)>>
        probed == [c EXCEPT ![offset] = address]
        readback == set_bits(rb, 0, 4, {})
        tz == trailing_zeros(readback)
        \* 1 << 32 on a u32: a panic with overflow checks, 1 << (32 % 32) without
        size == IF tz < 32 THEN {tz} ELSE {0}
        width == Value(get_bits(raw, 1, 3))
        upper == probed[offset + 4]
        address64 == set_bits(address, 32, 64, upper)
        R(kind, a, sz, pf, port) == BarRet(slot, raw, rb, kind, a, sz, pf, port)
    IN  IF get_bit(raw, 0)
        THEN [ret |-> R("Io", {}, {}, FALSE, get_bits(raw, 2, 32)),
              log |-> <<Rd(offset, raw)>>, cfg |-> c]
        ELSE IF rb = {}
        THEN [ret |-> R("None", {}, {}, FALSE, {}), log |-> probe, cfg |-> probed]
        ELSE IF tz >= 32 /\ oc
        THEN [ret |-> R("Panic", {}, {}, FALSE, {}), log |-> probe, cfg |-> probed]
        ELSE IF width = 0
        THEN [ret |-> R("Memory32", address, size, prefetchable, {}),
              log |-> probe, cfg |-> probed]
        ELSE IF width = 2
        THEN [ret |-> R("Memory64", address64, size, prefetchable, {}),
              log |-> probe \o <<Rd(offset + 4, upper)>>, cfg |-> probed]
        ELSE [ret |-> R("Panic", {}, {}, FALSE, {}), log |-> probe, cfg |-> probed]

\* What the device may answer to the probe.
ReadbackVals ==
    {{}, {0}, 0..3, 4..31, 16..31, {2, 3} \cup (16..31), AllOnes}

Bar ==
    /\ Running
    /\ \E slot \in 0..(MAX_BARS - 1), rb \in ReadbackVals :
          LET r == bar(cfg, slot, rb, overflow_checks)
          IN  /\ ret' = r.ret
              /\ log' = r.log
              /\ cfg' = r.cfg
    /\ UNCHANGED <<addr, other, overflow_checks>>

----------------------------------------------------------------------------
(* Initial states and specifications *)

Started == [op |-> "init", panicked |-> FALSE]

\* The address operations, on two addresses PciAddress::new has just
\* constructed.  None of them depends on the build's overflow checks
\* (checked_add is explicit).
AddressInit ==
    /\ \E t \in AddressArgs, u \in AddressArgs :
          /\ addr = PciAddress_new(t[1], t[2], t[3], t[4])
          /\ other = PciAddress_new(u[1], u[2], u[3], u[4])
          /\ ret = AddrRet("new", <<t, u>>, {}, FALSE, "")
    /\ cfg = ZeroCfg
    /\ log = <<>>
    /\ overflow_checks = FALSE

AddressNext ==
    \/ Compare
    \/ IncrementFunction
    \/ IncrementDevice
    \/ IncrementBus
    \/ IncrementSegment

AddressSpec == AddressInit /\ [][AddressNext]_vars

\* The header decoders, over a function whose header registers hold any of
\* the sampled values.
StatusRegVals == {{}, {20}, {4}, {19}, {21}, AllOnes \ {20}, AllOnes}
HeaderTypeVals == {0, 1, 2, 3, 64, 127}
HeaderRegVals ==
    {set_bits(rest, 16, 24, Bits(t + 128 * mf, 8)) :
        rest \in {{}, AllOnes}, t \in HeaderTypeVals, mf \in {0, 1}}
CapRegVals == {{}, {6}, {8}, 0..7, AllOnes}
HeaderAddrs == {PciAddress_new(0, 0, 0, 0), PciAddress_new(1, 2, 3, 4)}

HeaderInit ==
    /\ addr \in HeaderAddrs
    /\ other = {}
    /\ \E st \in StatusRegVals, ht \in HeaderRegVals, cp \in CapRegVals :
          cfg = [ZeroCfg EXCEPT ![4] = st, ![12] = ht, ![52] = cp]
    /\ log = <<>>
    /\ ret = Started
    /\ overflow_checks = FALSE

HeaderNext ==
    \/ FromHeader
    \/ CapabilityPointer
    \/ Capabilities

HeaderSpec == HeaderInit /\ [][HeaderNext]_vars

\* The BAR probe, over an endpoint one of whose BARs (and the register after
\* it) holds any of the sampled values.
\* 0xFE00000n for every type nibble n, the zero register, and the I/O BAR 0xFC1
RawVals == {(25..31) \cup Bits(n, 4) : n \in 0..15} \cup {{}, {0} \cup (6..11)}
UpperVals == {{0}, AllOnes}

BarInit ==
    /\ addr = {}
    /\ other = {}
    /\ \E k \in 0..(MAX_BARS - 1), raw \in RawVals, up \in UpperVals :
          cfg = [ZeroCfg EXCEPT ![16 + 4 * k] = raw, ![16 + 4 * k + 4] = up]
    /\ log = <<>>
    /\ ret = Started
    /\ overflow_checks \in BOOLEAN

BarNext == Bar

BarSpec == BarInit /\ [][BarNext]_vars

----------------------------------------------------------------------------
(* The claims *)

Fields(a) == <<segment(a), bus(a), device(a), function(a)>>

\* The lexicographic order of two (segment, bus, device, function) tuples.
LexCmp(t, u) ==
    IF t = u THEN "Equal"
    ELSE LET i == CHOOSE x \in 1..4 : t[x] # u[x] /\ \A y \in 1..(x - 1) : t[y] = u[y]
         IN  IF t[i] < u[i] THEN "Less" ELSE "Greater"

BarOffset(slot) == 16 + 4 * slot
IsMemoryBar == ret.op = "bar" /\ 0 \notin ret.raw
\* bits 1-2 of the raw BAR value
WidthBits == {i - 1 : i \in ret.raw \cap {1, 2}}
\* the read-back with bits 0-3 cleared
MaskedReadback == ret.rb \ (0..3)
ReadsAt(off) == {i \in 1..Len(log) : log[i].op = "read" /\ log[i].off = off}
WritesAt(off) == {i \in 1..Len(log) : log[i].op = "write" /\ log[i].off = off}
Writes == {i \in 1..Len(log) : log[i].op = "write"}

\* C1: for a memory BAR in any slot, bar writes 0xFFFFFFFF to the BAR's
\* offset, reads it back, and then writes the original raw value (all 32
\* bits) to the same offset, so the register ends holding what it held.
C1_ProbeRestoresRaw ==
    IsMemoryBar =>
        LET off == BarOffset(ret.slot)
        IN  /\ Len(log) >= 4
            /\ log[1] = Rd(off, ret.raw)
            /\ log[2] = Wr(off, AllOnes)
            /\ log[3] = Rd(off, ret.rb)
            /\ log[4] = Wr(off, ret.raw)
            /\ WritesAt(off) = {2, 4}
            /\ cfg[off] = ret.raw

\* C2: for a memory BAR, bar returns None exactly when the read-back is
\* zero, and for every non-zero read-back it returns a resource of size
\* 2^(trailing zeros of the read-back with bits 0-3 cleared), without
\* overflow or abort.  Stated for the width encodings the decoder accepts
\* (the reserved ones are C3's subject).
C2_SizeFromReadback ==
    (IsMemoryBar /\ WidthBits \in {{}, {1}}) =>
        /\ (ret.kind = "None") <=> (ret.rb = {})
        /\ ret.rb # {} =>
              /\ ret.kind \in {"Memory32", "Memory64"}
              /\ ret.size = {IF MaskedReadback = {} THEN 32
                              ELSE CHOOSE i \in MaskedReadback :
                                       \A j \in MaskedReadback : i <= j}

\* C3: for a memory BAR with a non-zero read-back, width bits 0b00 yield
\* Memory32, 0b10 yield Memory64, and 0b01 or 0b11 yield a recoverable
\* decode error, never an abort.  Stated for read-backs whose size fits
\* (the others are C2's subject).
C3_ReservedIsError ==
    (IsMemoryBar /\ MaskedReadback # {}) =>
        /\ WidthBits = {} => ret.kind = "Memory32"
        /\ WidthBits = {1} => ret.kind = "Memory64"
        /\ WidthBits \in {{0}, {0, 1}} => (ret.kind = "Error" /\ ~ret.panicked)

\* C4: where the target field does not carry out, increment_device yields
\* (s,b,d+1,0), increment_bus yields (s,b+1,0,0), increment_segment yields
\* (s+1,0,0,0).
C4_IncrementClearsLower ==
    LET t == Fields(ret.before)
    IN  /\ (ret.op = "increment_device" /\ t[3] < 31) =>
              (~ret.panicked /\ Fields(addr) = <<t[1], t[2], t[3] + 1, 0>>)
        /\ (ret.op = "increment_bus" /\ t[2] < 255) =>
              (~ret.panicked /\ Fields(addr) = <<t[1], t[2] + 1, 0, 0>>)
        /\ (ret.op = "increment_segment" /\ t[1] < 65535) =>
              (~ret.panicked /\ Fields(addr) = <<t[1] + 1, 0, 0, 0>>)

\* C5: increment_function on (s,b,d,f) with f < 7 yields (s,b,d,f+1), and
\* on (s,b,d,7) with d < 31 yields (s,b,d+1,0); the stored address changes
\* and no range-exhaustion error is raised.
C5_IncrementFunctionCarries ==
    ret.op = "increment_function" =>
        LET t == Fields(ret.before)
        IN  /\ t[4] < 7 =>
                  /\ ~ret.panicked
                  /\ addr # ret.before
                  /\ Fields(addr) = <<t[1], t[2], t[3], t[4] + 1>>
            /\ (t[4] = 7 /\ t[3] < 31) =>
                  /\ ~ret.panicked
                  /\ addr # ret.before
                  /\ Fields(addr) = <<t[1], t[2], t[3] + 1, 0>>

\* The increment would leave the 32-bit address space: every bit from the
\* target field's lowest bit up is set.
Exhausts ==
    \/ ret.op = "increment_function" /\ (0..31) \subseteq ret.before
    \/ ret.op = "increment_device" /\ (3..31) \subseteq ret.before
    \/ ret.op = "increment_bus" /\ (8..31) \subseteq ret.before
    \/ ret.op = "increment_segment" /\ (16..31) \subseteq ret.before

\* C6: an increment that would exceed the 32-bit address space reports a
\* recoverable range-exhaustion error and never aborts the process.
C6_ExhaustionIsRecoverable ==
    Exhausts => (~ret.panicked /\ ret.out = "RangeExhausted")

\* C7: for a 64-bit memory BAR with a non-zero read-back in slot k, bar
\* returns Memory64 with address bits 32-63 from the register at
\* offset + 4, bits 0-31 the raw value with bits 0-3 cleared, and
\* prefetchable = raw bit 3; it reads offset + 4 exactly once, never writes
\* it, and writes only to the BAR's own offset.
C7_Memory64UpperHalf ==
    (IsMemoryBar /\ WidthBits = {1} /\ ret.rb # {}) =>
        LET off == BarOffset(ret.slot)
        IN  /\ ret.kind = "Memory64"
            /\ {i - 32 : i \in ret.address \cap (32..63)} = cfg[off + 4]
            /\ ret.address \cap (0..31) = ret.raw \ (0..3)
            /\ ret.prefetchable = (3 \in ret.raw)
            /\ Cardinality(ReadsAt(off + 4)) = 1
            /\ WritesAt(off + 4) = {}
            /\ Writes = WritesAt(off)

\* the has-capability-list flag: bit 4 of the status word, the upper half of 0x04
ListFlag == 20 \in cfg[4]
PointerByte == cfg[52] \cap (0..7)

\* C8: with the has-capability-list flag clear, capability_pointer returns
\* 0 without reading offset 0x34, whatever it holds, and capabilities roots
\* its iterator at offset 0; with the flag set, capability_pointer returns
\* bits 0-7 of the register at 0x34.
C8_PointerOnlyWithList ==
    /\ (ret.op \in {"capability_pointer", "capabilities"} /\ ~ListFlag) =>
          (ret.value = 0 /\ ReadsAt(52) = {})
    /\ (ret.op = "capability_pointer" /\ ListFlag) =>
          Bits(ret.value, 16) = PointerByte

C8_Witness ==
    /\ ret.op = "capability_pointer"
    /\ ~ListFlag
    /\ PointerByte # {}
    /\ ret.value = 0

\* C9: from_header returns Some exactly when bits 16-22 of the register at
\* 0x0C are all zero, whatever bit 23 is, and None (no abort) otherwise;
\* the decoder it returns wraps the header's address.
C9_EndpointOnly ==
    ret.op = "from_header" =>
        /\ ret.some <=> (cfg[12] \cap (16..22) = {})
        /\ ret.some => ret.address = addr
        /\ ~ret.panicked

C9_Witness ==
    /\ ret.op = "from_header"
    /\ 23 \in cfg[12]
    /\ ret.some
    /\ ret.address # {}

\* C10: an address constructed from in-range (segment, bus, device,
\* function) gives each of them back through its accessor, and two
\* addresses compare as their (segment, bus, device, function) tuples do
\* lexicographically.
C10_RoundTripAndOrder ==
    /\ ret.op = "new" => (Fields(addr) = ret.args[1] /\ Fields(other) = ret.args[2])
    /\ ret.op = "cmp" => ret.out = LexCmp(Fields(addr), Fields(other))

C10_Witness ==
    /\ ret.op = "cmp"
    /\ ret.out = "Less"
    /\ segment(addr) < segment(other)
    /\ bus(addr) > bus(other)
    /\ device(addr) > device(other)
    /\ function(addr) > function(other)

====
